---- MODULE Spec2Model ----
\* Model of src/backend_performance_tuning.py: the performance_metrics and
\* cache_result decorators, the four Flask routes built from them, a generic
\* handler h composed as performance_metrics(cache_result()(h)), the Redis
\* backend they share and the thread add_post starts.
EXTENDS Integers, Sequences, FiniteSets, TLC

\* ---------------------------------------------------------------- bounds
MaxCalls == 2      \* calls started in one behaviour
MaxTicks == 2      \* clock advances in one behaviour
ClockStep == 30    \* seconds per clock advance

\* ------------------------------------------------------- program constants
DefaultTimeout == 60     \* cache_result(timeout=60)
PostsTimeout == 120      \* @cache_result(timeout=120) on get_posts
Created == 201           \* status returned by add_user and add_post

\* The request contexts: two requests can be in progress at once.
Ctx == {"r1", "r2"}

\* ---------------------------------------------------------------- values
\* A Python value: t is its type, d its text, n its number.
Val(t, d, n) == [t |-> t, d |-> d, n |-> n]
NoValue == Val("unset", "", 0)
NoneV == Val("None", "", 0)
StrV(s) == Val("str", s, 0)
BytesV(s) == Val("bytes", s, 0)
IntV(s) == Val("int", s, 0)
\* jsonify(...) of n rows: a flask Response object
ResponseV(what, n) == Val("Response", what, n)
\* (jsonify({'message': m}), 201): a tuple of a Response and a status
CreatedV(m) == Val("tuple", m, Created)

\* Results the generic handler h can return.
HValues == {BytesV("6"), StrV("6"), IntV("6"), BytesV("")}

\* Argument tuples h is called with.
HArgs == {<<3>>, <<3, 4>>}

Routes == {"h", "get_users", "get_posts", "add_user", "add_post"}
Mutating == {"add_user", "add_post"}

\* A second wrapped handler: a function that is also named h, defined in
\* another module and decorated with @cache_result() like h.
OtherH == "other.h"

\* func.__name__ of the function a route wraps
FuncName(route) == IF route = OtherH THEN "h" ELSE route

\* Variant: every route decorated with @cache_result.
CachedAll(route) == TRUE
\* Which routes are decorated with @cache_result.
Cached(route) == route \in {"h", OtherH, "get_posts"}

\* Variant: get_posts decorated with cache_result's default timeout.
TimeoutDefault(route) == DefaultTimeout
\* cache_result's timeout for a route
Timeout(route) == IF route = "get_posts" THEN PostsTimeout ELSE DefaultTimeout

\* cache_key = f"{func.__name__}:{args}": the name, a colon, repr of the tuple
ReprArgs(args) ==
  CASE args = <<>> -> "()"
    [] args = <<3>> -> "(3,)"
    [] args = <<3, 4>> -> "(3, 4)"
    [] args = <<4, 3>> -> "(4, 3)"
    [] OTHER -> "(?)"
CacheKey(route, args) == <<FuncName(route), ":", ReprArgs(args)>>

ArgsOf(route) == IF route = "h" THEN HArgs ELSE {<<>>}
\* The calls of a set of routes: a route and an argument tuple.
Calls(routes) == UNION {{<<r, a>> : a \in ArgsOf(r)} : r \in routes}

\* Calls of the two handlers named h, with the same two values in both orders.
KeyCalls == {"h", OtherH} \X {<<3, 4>>, <<4, 3>>}

Keys == {CacheKey(x[1], x[2]) : x \in Calls(Routes) \cup KeyCalls}

\* ----------------------------------------------------------------- state
VARIABLES
  now,        \* time.time(), seconds
  ticks,      \* clock advances so far
  redisUp,    \* the Redis server is reachable
  cache,      \* the Redis store: key -> entry
  origin,     \* per key, the handler result the entry was stored from
  storer,     \* per key, the route and arguments of the call that stored the entry
  latest,     \* per key, the result of the handler invocation that returned last
  users,      \* committed User rows
  posts,      \* committed Post rows
  call,       \* per request context, the frame of the call in progress
  threads,    \* the threads started by add_post
  ncalls      \* calls started so far

vars == <<now, ticks, redisUp, cache, origin, storer, latest, users, posts, call, threads, ncalls>>

\* ----------------------------------------------------------------- redis
\* redis-py encodes a value for the wire: bytes as they are, str as its utf-8
\* bytes, int as its repr. For any other type redis-py 3.0 and later raises
\* DataError, and redis-py before 3.0 sends str(value): of a flask Response
\* that is "<Response N bytes [200 OK]>", N being the length of its body.
Encodable(v) == v.t \in {"bytes", "str", "int"}
Encode(v) ==
  IF v.t \in {"bytes", "str", "int"} THEN BytesV(v.d)
  ELSE Val("bytes", "<Response N bytes [200 OK]>", v.n)

NoEntry == [present |-> FALSE, value |-> NoValue, expiresAt |-> 0]

\* An entry Redis still serves at time t: stored and not yet expired.
Live(store, key, t) == store[key].present /\ t < store[key].expiresAt
\* An entry whose TTL has elapsed at time t.
Expired(store, key, t) == store[key].present /\ t >= store[key].expiresAt

\* Variant: a get that serves an entry whatever its expiry time.
RedisGetStale(store, key, t) ==
  IF store[key].present THEN store[key].value ELSE NoneV
\* redis.get(key): the stored bytes, or None when the key is absent or expired
RedisGet(store, key, t) ==
  IF Live(store, key, t) THEN store[key].value ELSE NoneV

\* redis.setex(key, timeout, value)
RedisSetex(store, key, timeout, v, t) ==
  [store EXCEPT ![key] = [present |-> TRUE, value |-> Encode(v), expiresAt |-> t + timeout]]

\* `if cached_result:` Python truth of what redis.get returned
Truthy(v) == v.t = "bytes" /\ v.d # ""

NoOutcome == [kind |-> "none", val |-> NoValue, exc |-> "none"]
Returned(v) == [kind |-> "return", val |-> v, exc |-> "none"]
Raised(e) == [kind |-> "raise", val |-> NoValue, exc |-> e]

Idle ==
  [route |-> "none", args |-> <<>>, pc |-> "idle",
   start_time |-> 0, end_time |-> 0,
   cache_key |-> <<>>, cached_result |-> NoValue, result |-> NoValue,
   called |-> <<>>,        \* argument tuples performance_metrics passed to func
   invoked |-> 0,          \* times the route's own function body ran
   records |-> <<>>,       \* execution-time log events of this call
   outcome |-> NoOutcome,  \* what the caller of the route observes
   saw |-> NoValue,        \* handler result behind the live entry at lookup
   stale |-> FALSE,        \* the entry was there at lookup, its TTL elapsed
   saw_until |-> 0,        \* expiry time of the live entry at lookup
   saw_by |-> <<>>,        \* route and arguments of the call that stored it
   stored_until |-> 0,     \* expiry time of the entry this call stored
   get_failed |-> "none",  \* the error redis.get raised
   set_failed |-> "none",  \* the error redis.setex raised
   h_raised |-> "none",    \* the error the route's function raised
   committed |-> FALSE,    \* db.session.commit() returned
   committed_at |-> 0,     \* time at which db.session.commit() returned
   row |-> 0,              \* number of the Post row this call committed
   thread |-> 0]           \* index in threads of the thread this call started

Init ==
  /\ now = 0
  /\ ticks = 0
  /\ redisUp = TRUE
  /\ cache = [k \in Keys |-> NoEntry]
  /\ origin = [k \in Keys |-> NoValue]
  /\ storer = [k \in Keys |-> <<>>]
  /\ latest = [k \in Keys |-> NoValue]
  /\ users = 0
  /\ posts = 0
  /\ call = [c \in Ctx |-> Idle]
  /\ threads = <<>>
  /\ ncalls = 0

\* --------------------------------------------------------------- actions
Set(c, frame) == call' = [call EXCEPT ![c] = frame]

\* An exception leaves every wrapper on the way to the caller: no statement
\* after the raising call runs in cache_result.wrapper or in
\* performance_metrics.wrapper (neither has try/except/finally).
Unwind(f, e) == [f EXCEPT !.pc = "done", !.outcome = Raised(e)]

\* A context is free when no call is in progress in it; a request gets the
\* first free one (the contexts are interchangeable).
Free(c) == call[c].pc \in {"idle", "done"}
FirstFree(c) == Free(c) /\ (c = "r2" => ~Free("r1"))

\* The router calls the composed view function of a route in a free context:
\* performance_metrics.wrapper runs start_time = time.time() and calls
\* func(*args, **kwargs).
Arrive(c, calls, maxCalls) ==
  /\ FirstFree(c)
  /\ ncalls < maxCalls
  /\ \E x \in calls :
       Set(c, [Idle EXCEPT !.route = x[1], !.args = x[2],
                           !.start_time = now,
                           !.called = <<x[2]>>,
                           !.pc = IF Cached(x[1]) THEN "cache_get" ELSE "handler"])
  /\ ncalls' = ncalls + 1
  /\ UNCHANGED <<now, ticks, redisUp, cache, origin, storer, latest, users, posts, threads>>

\* A request for any route.
NewCall(c) == Arrive(c, Calls(Routes), MaxCalls)

\* Variant: a lookup that, on a hit, stores the entry again with a fresh TTL
\* (sliding expiry).
CacheGetRefreshes(c) ==
  LET f == call[c]
      key == CacheKey(f.route, f.args)
      got == RedisGet(cache, key, now)
      g == [f EXCEPT !.cache_key = key]
  IN /\ f.pc = "cache_get"
     /\ IF ~redisUp
          THEN /\ Set(c, Unwind([g EXCEPT !.get_failed = "ConnectionError"], "ConnectionError"))
               /\ UNCHANGED cache
          ELSE /\ Set(c, [g EXCEPT !.cached_result = got,
                                   !.saw = IF got = NoneV THEN NoValue ELSE origin[key],
                                   !.stale = Expired(cache, key, now),
                                   !.saw_until = IF got = NoneV THEN 0 ELSE cache[key].expiresAt,
                                   !.saw_by = IF got = NoneV THEN <<>> ELSE storer[key],
                                   !.result = IF Truthy(got) THEN got ELSE f.result,
                                   !.pc = IF Truthy(got) THEN "perf_end" ELSE "handler"])
               /\ cache' = IF Truthy(got)
                             THEN [cache EXCEPT ![key].expiresAt = now + Timeout(f.route)]
                             ELSE cache
     /\ UNCHANGED <<now, ticks, redisUp, origin, storer, latest, users, posts, threads, ncalls>>

\* Variant: a lookup that waits while another call for the same key is
\* between its own lookup and its store (a per-key lock).
CacheGetSerialized(c) ==
  LET f == call[c]
      key == CacheKey(f.route, f.args)
      got == RedisGet(cache, key, now)
      g == [f EXCEPT !.cache_key = key]
  IN /\ f.pc = "cache_get"
     /\ \A d \in Ctx \ {c} :
          ~(call[d].pc \in {"handler", "cache_set"} /\ call[d].cache_key = key)
     /\ IF ~redisUp
          THEN Set(c, Unwind([g EXCEPT !.get_failed = "ConnectionError"], "ConnectionError"))
          ELSE Set(c, [g EXCEPT !.cached_result = got,
                                !.saw = IF got = NoneV THEN NoValue ELSE origin[key],
                                !.stale = Expired(cache, key, now),
                                !.saw_until = IF got = NoneV THEN 0 ELSE cache[key].expiresAt,
                                !.saw_by = IF got = NoneV THEN <<>> ELSE storer[key],
                                !.result = IF Truthy(got) THEN got ELSE f.result,
                                !.pc = IF Truthy(got) THEN "perf_end" ELSE "handler"])
     /\ UNCHANGED <<now, ticks, redisUp, cache, origin, storer, latest, users, posts, threads, ncalls>>

\* cache_result.wrapper: build the key, redis.get, return the hit
CacheGet(c) ==
  LET f == call[c]
      key == CacheKey(f.route, f.args)
      got == RedisGet(cache, key, now)
      g == [f EXCEPT !.cache_key = key]
  IN /\ f.pc = "cache_get"
     /\ IF ~redisUp
          THEN Set(c, Unwind([g EXCEPT !.get_failed = "ConnectionError"], "ConnectionError"))
          ELSE Set(c, [g EXCEPT !.cached_result = got,
                                !.saw = IF got = NoneV THEN NoValue ELSE origin[key],
                                !.stale = Expired(cache, key, now),
                                !.saw_until = IF got = NoneV THEN 0 ELSE cache[key].expiresAt,
                                !.saw_by = IF got = NoneV THEN <<>> ELSE storer[key],
                                !.result = IF Truthy(got) THEN got ELSE f.result,
                                !.pc = IF Truthy(got) THEN "perf_end" ELSE "handler"])
     /\ UNCHANGED <<now, ticks, redisUp, cache, origin, storer, latest, users, posts, threads, ncalls>>

\* Variant: a wrapper that catches the handler's error, stores its text under
\* the key and raises it again.
HandlerHStoresError(c) ==
  LET f == [call[c] EXCEPT !.invoked = @ + 1]
  IN /\ call[c].pc = "handler"
     /\ call[c].route = "h"
     /\ \/ /\ \E v \in HValues :
                /\ Set(c, [f EXCEPT !.result = v, !.pc = "cache_set"])
                /\ latest' = [latest EXCEPT ![f.cache_key] = v]
           /\ UNCHANGED <<cache, origin, storer>>
        \/ /\ Set(c, Unwind([f EXCEPT !.h_raised = "HandlerError"], "HandlerError"))
           /\ cache' = RedisSetex(cache, f.cache_key, Timeout(f.route), StrV("HandlerError"), now)
           /\ origin' = [origin EXCEPT ![f.cache_key] = StrV("HandlerError")]
           /\ storer' = [storer EXCEPT ![f.cache_key] = <<f.route, f.args>>]
           /\ UNCHANGED latest
     /\ UNCHANGED <<now, ticks, redisUp, users, posts, threads, ncalls>>

\* The generic handler h(*args): returns some value or raises. Raising, it
\* leaves cache_result.wrapper before redis.setex.
HandlerH(c) ==
  LET f == [call[c] EXCEPT !.invoked = @ + 1]
  IN /\ call[c].pc = "handler"
     /\ call[c].route = "h"
     /\ \/ \E v \in HValues :
             /\ Set(c, [f EXCEPT !.result = v, !.pc = "cache_set"])
             /\ latest' = [latest EXCEPT ![f.cache_key] = v]
        \/ /\ Set(c, Unwind([f EXCEPT !.h_raised = "HandlerError"], "HandlerError"))
           /\ UNCHANGED latest
     /\ UNCHANGED <<now, ticks, redisUp, cache, origin, storer, users, posts, threads, ncalls>>

\* Results the other handler named h can return.
OtherValues == {BytesV("7")}

\* The other handler named h: returns some value or raises.
HandlerOtherH(c) ==
  LET f == [call[c] EXCEPT !.invoked = @ + 1]
  IN /\ call[c].pc = "handler"
     /\ call[c].route = OtherH
     /\ \/ \E v \in OtherValues :
             /\ Set(c, [f EXCEPT !.result = v, !.pc = "cache_set"])
             /\ latest' = [latest EXCEPT ![f.cache_key] = v]
        \/ /\ Set(c, Unwind([f EXCEPT !.h_raised = "HandlerError"], "HandlerError"))
           /\ UNCHANGED latest
     /\ UNCHANGED <<now, ticks, redisUp, cache, origin, storer, users, posts, threads, ncalls>>

\* get_users: User.query.all() and jsonify
GetUsers(c) ==
  LET f == [call[c] EXCEPT !.invoked = @ + 1]
  IN /\ call[c].pc = "handler"
     /\ call[c].route = "get_users"
     /\ \/ Set(c, [f EXCEPT !.result = ResponseV("users", users), !.pc = "perf_end"])
        \/ Set(c, Unwind([f EXCEPT !.h_raised = "DBError"], "DBError"))
     /\ UNCHANGED <<now, ticks, redisUp, cache, origin, storer, latest, users, posts, threads, ncalls>>

\* get_posts: Post.query.all() and jsonify
GetPosts(c) ==
  LET f == [call[c] EXCEPT !.invoked = @ + 1]
  IN /\ call[c].pc = "handler"
     /\ call[c].route = "get_posts"
     /\ \/ /\ Set(c, [f EXCEPT !.result = ResponseV("posts", posts), !.pc = "cache_set"])
           /\ latest' = [latest EXCEPT ![f.cache_key] = ResponseV("posts", posts)]
        \/ /\ Set(c, Unwind([f EXCEPT !.h_raised = "DBError"], "DBError"))
           /\ UNCHANGED latest
     /\ UNCHANGED <<now, ticks, redisUp, cache, origin, storer, users, posts, threads, ncalls>>

\* add_user: db.session.add, db.session.commit, the 201 response
AddUser(c) ==
  LET f == [call[c] EXCEPT !.invoked = @ + 1]
  IN /\ call[c].pc = "handler"
     /\ call[c].route = "add_user"
     /\ \/ /\ Set(c, [f EXCEPT !.committed = TRUE, !.result = CreatedV("User added"),
                               !.pc = "perf_end"])
           /\ users' = users + 1
        \/ /\ Set(c, Unwind([f EXCEPT !.h_raised = "DBError"], "DBError"))
           /\ UNCHANGED users
     /\ UNCHANGED <<now, ticks, redisUp, cache, origin, storer, latest, posts, threads, ncalls>>

\* Variant: an add_post that starts its thread before db.session.commit().
AddPostStartsFirst(c) ==
  LET f == [call[c] EXCEPT !.invoked = @ + 1, !.thread = Len(threads) + 1]
  IN /\ call[c].pc = "handler"
     /\ call[c].route = "add_post"
     /\ threads' = Append(threads, [user_id |-> 1, state |-> "started"])
     /\ \/ /\ Set(c, [f EXCEPT !.committed = TRUE, !.committed_at = now,
                               !.row = posts + 1,
                               !.result = CreatedV("Post added"), !.pc = "perf_end"])
           /\ posts' = posts + 1
        \/ /\ Set(c, Unwind([f EXCEPT !.h_raised = "DBError"], "DBError"))
           /\ UNCHANGED posts
     /\ UNCHANGED <<now, ticks, redisUp, cache, origin, storer, latest, users, ncalls>>

\* add_post up to db.session.commit()
AddPostCommit(c) ==
  LET f == [call[c] EXCEPT !.invoked = @ + 1]
  IN /\ call[c].pc = "handler"
     /\ call[c].route = "add_post"
     /\ \/ /\ Set(c, [f EXCEPT !.committed = TRUE, !.committed_at = now,
                               !.row = posts + 1, !.pc = "thread_start"])
           /\ posts' = posts + 1
        \/ /\ Set(c, Unwind([f EXCEPT !.h_raised = "DBError"], "DBError"))
           /\ UNCHANGED posts
     /\ UNCHANGED <<now, ticks, redisUp, cache, origin, storer, latest, users, threads, ncalls>>

\* add_post: threading.Thread(target=long_running_task, ...).start() and the
\* 201 response; start() returns once the thread exists, whatever it has done.
AddPostThreadStart(c) ==
  /\ call[c].pc = "thread_start"
  /\ threads' = Append(threads, [user_id |-> 1, state |-> "started"])
  /\ Set(c, [call[c] EXCEPT !.thread = Len(threads) + 1,
                            !.result = CreatedV("Post added"),
                            !.pc = "perf_end"])
  /\ UNCHANGED <<now, ticks, redisUp, cache, origin, storer, latest, users, posts, ncalls>>

\* cache_result.wrapper on a miss: redis.setex(cache_key, timeout, result).
\* The repository pins no redis-py version: a value that only the encoder of
\* redis-py before 3.0 accepts is stored by some installations and refused
\* with DataError by the others.
CacheSet(c) ==
  LET f == call[c]
  IN /\ f.pc = "cache_set"
     /\ IF ~redisUp
          THEN /\ Set(c, Unwind([f EXCEPT !.set_failed = "ConnectionError"], "ConnectionError"))
               /\ UNCHANGED <<cache, origin, storer>>
          ELSE \/ /\ ~Encodable(f.result)
                  /\ Set(c, Unwind([f EXCEPT !.set_failed = "DataError"], "DataError"))
                  /\ UNCHANGED <<cache, origin, storer>>
               \/ /\ cache' = RedisSetex(cache, f.cache_key, Timeout(f.route), f.result, now)
                  /\ origin' = [origin EXCEPT ![f.cache_key] = f.result]
                  /\ storer' = [storer EXCEPT ![f.cache_key] = <<f.route, f.args>>]
                  /\ Set(c, [f EXCEPT !.stored_until = now + Timeout(f.route),
                                      !.pc = "perf_end"])
     /\ UNCHANGED <<now, ticks, redisUp, latest, users, posts, threads, ncalls>>

\* performance_metrics.wrapper: end_time = time.time() and the logging.info
PerfEnd(c) ==
  /\ call[c].pc = "perf_end"
  /\ Set(c, [call[c] EXCEPT !.end_time = now,
                            !.records = Append(@, [name |-> FuncName(call[c].route),
                                                   startTime |-> call[c].start_time,
                                                   endTime |-> now]),
                            !.pc = "perf_return"])
  /\ UNCHANGED <<now, ticks, redisUp, cache, origin, storer, latest, users, posts, threads, ncalls>>

\* Variant: a wrapper without its return statement.
PerfResultDropped(result) == NoneV
\* performance_metrics.wrapper: return result
PerfResult(result) == result

ThreadOver(c) ==
  IF call[c].thread = 0 THEN TRUE
  ELSE threads[call[c].thread].state \in {"completed", "failed"}

\* Variant: a response that waits for the thread it started (a join).
PerfReturnJoins(c) ==
  /\ call[c].pc = "perf_return"
  /\ ThreadOver(c)
  /\ Set(c, [call[c] EXCEPT !.outcome = Returned(PerfResult(call[c].result)), !.pc = "done"])
  /\ UNCHANGED <<now, ticks, redisUp, cache, origin, storer, latest, users, posts, threads, ncalls>>

\* Variant: a request that, returning, cancels the thread it started.
PerfReturnCancels(c) ==
  /\ call[c].pc = "perf_return"
  /\ Set(c, [call[c] EXCEPT !.outcome = Returned(PerfResult(call[c].result)), !.pc = "done"])
  /\ threads' = [i \in DOMAIN threads |->
                  IF i = call[c].thread /\ threads[i].state # "completed"
                    THEN [threads[i] EXCEPT !.state = "cancelled"] ELSE threads[i]]
  /\ UNCHANGED <<now, ticks, redisUp, cache, origin, storer, latest, users, posts, ncalls>>

\* performance_metrics.wrapper returns to the router.
PerfReturn(c) ==
  /\ call[c].pc = "perf_return"
  /\ Set(c, [call[c] EXCEPT !.outcome = Returned(PerfResult(call[c].result)), !.pc = "done"])
  /\ UNCHANGED <<now, ticks, redisUp, cache, origin, storer, latest, users, posts, threads, ncalls>>

\* long_running_task: logging.info("Starting ...")
TaskBegin(i) ==
  /\ threads[i].state = "started"
  /\ threads' = [threads EXCEPT ![i].state = "running"]
  /\ UNCHANGED <<now, ticks, redisUp, cache, origin, storer, latest, users, posts, call, ncalls>>

\* long_running_task: time.sleep(10) is over, logging.info("Completed ...")
TaskComplete(i) ==
  /\ threads[i].state = "running"
  /\ threads' = [threads EXCEPT ![i].state = "completed"]
  /\ UNCHANGED <<now, ticks, redisUp, cache, origin, storer, latest, users, posts, call, ncalls>>

Starter(i) == {c \in Ctx : call[c].thread = i}

\* Variant: a thread whose exception is raised in the request that started it.
TaskFailSurfaces(i) ==
  /\ threads[i].state \in {"started", "running"}
  /\ threads' = [threads EXCEPT ![i].state = "failed"]
  /\ call' = [c \in Ctx |-> IF c \in Starter(i) /\ call[c].pc # "done"
                              THEN Unwind(call[c], "BackgroundTaskError") ELSE call[c]]
  /\ UNCHANGED <<now, ticks, redisUp, cache, origin, storer, latest, users, posts, ncalls>>

\* An exception inside the thread ends the thread alone: threading reports it
\* through its excepthook and no other thread sees it.
TaskFail(i) ==
  /\ threads[i].state \in {"started", "running"}
  /\ threads' = [threads EXCEPT ![i].state = "failed"]
  /\ UNCHANGED <<now, ticks, redisUp, cache, origin, storer, latest, users, posts, call, ncalls>>

\* Wall-clock time passes.
Advance(step, maxTicks) ==
  /\ ticks < maxTicks
  /\ ticks' = ticks + 1
  /\ now' = now + step
  /\ UNCHANGED <<redisUp, cache, origin, storer, latest, users, posts, call, threads, ncalls>>

Tick == Advance(ClockStep, MaxTicks)

\* The Redis server becomes unreachable, or reachable again.
RedisFail ==
  /\ redisUp
  /\ redisUp' = FALSE
  /\ UNCHANGED <<now, ticks, cache, origin, storer, latest, users, posts, call, threads, ncalls>>

RedisRecover ==
  /\ ~redisUp
  /\ redisUp' = TRUE
  /\ UNCHANGED <<now, ticks, cache, origin, storer, latest, users, posts, call, threads, ncalls>>

\* One request context at work.
Serve(c) ==
  \/ NewCall(c)
  \/ CacheGet(c)
  \/ HandlerH(c)
  \/ GetUsers(c)
  \/ GetPosts(c)
  \/ AddUser(c)
  \/ AddPostCommit(c)
  \/ AddPostThreadStart(c)
  \/ CacheSet(c)
  \/ PerfEnd(c)
  \/ PerfReturn(c)

\* The threads add_post started.
Background ==
  \/ \E i \in DOMAIN threads : TaskBegin(i)
  \/ \E i \in DOMAIN threads : TaskComplete(i)
  \/ \E i \in DOMAIN threads : TaskFail(i)

\* The clock and the Redis server.
Environment ==
  \/ Tick
  \/ RedisFail
  \/ RedisRecover

\* Requests arrive one after the other; the threads they start run beside them.
Next ==
  \/ Serve("r1")
  \/ Background
  \/ Environment

Spec == Init /\ [][Next]_vars

\* Requests are served concurrently, one per context.
NextConc ==
  \/ \E c \in Ctx : Serve(c)
  \/ Background
  \/ Environment

SpecConc == Init /\ [][NextConc]_vars

\* get_posts and add_post requests served concurrently over a span of time
\* longer than the TTL of get_posts.
PostsCalls == 3    \* calls started in one behaviour
PostsTicks == 3    \* clock advances in one behaviour
PostsStep == 50    \* seconds per clock advance
PostsRoutes == {"get_posts", "add_post"}

NewPostsCall(c) == Arrive(c, Calls(PostsRoutes), PostsCalls)
PostsTick == Advance(PostsStep, PostsTicks)

ServePosts(c) ==
  \/ NewPostsCall(c)
  \/ CacheGet(c)
  \/ GetPosts(c)
  \/ AddPostCommit(c)
  \/ AddPostThreadStart(c)
  \/ CacheSet(c)
  \/ PerfEnd(c)
  \/ PerfReturn(c)

NextPosts ==
  \/ \E c \in Ctx : ServePosts(c)
  \/ PostsTick

SpecPosts == Init /\ [][NextPosts]_vars

\* Requests for the wrapped h served concurrently within one reading of the
\* clock.
RaceCalls == 2     \* calls started in one behaviour

NewRaceCall(c) == Arrive(c, Calls({"h"}), RaceCalls)

ServeRace(c) ==
  \/ NewRaceCall(c)
  \/ CacheGet(c)
  \/ HandlerH(c)
  \/ CacheSet(c)
  \/ PerfEnd(c)
  \/ PerfReturn(c)

NextRace ==
  \/ \E c \in Ctx : ServeRace(c)
  \/ RedisFail
  \/ RedisRecover

SpecRace == Init /\ [][NextRace]_vars

\* Requests for the two handlers named h, one after the other.
NewKeyCall(c) == Arrive(c, KeyCalls, MaxCalls)

ServeKeys(c) ==
  \/ NewKeyCall(c)
  \/ CacheGet(c)
  \/ HandlerH(c)
  \/ HandlerOtherH(c)
  \/ CacheSet(c)
  \/ PerfEnd(c)
  \/ PerfReturn(c)

NextKeys ==
  \/ ServeKeys("r1")
  \/ Environment

SpecKeys == Init /\ [][NextKeys]_vars

\* add_post requests served concurrently and the threads they start, each
\* thread running long_running_task as written: info, sleep, info. The
\* operating system schedules every thread that can run.
TaskCalls == 2     \* calls started in one behaviour

NewAddPostCall(c) == Arrive(c, Calls({"add_post"}), TaskCalls)

ServeAddPost(c) ==
  \/ NewAddPostCall(c)
  \/ AddPostCommit(c)
  \/ AddPostThreadStart(c)
  \/ PerfEnd(c)
  \/ PerfReturn(c)

RunBegin(i) == i \in DOMAIN threads /\ TaskBegin(i)
RunComplete(i) == i \in DOMAIN threads /\ TaskComplete(i)

NextTasks ==
  \/ \E c \in Ctx : ServeAddPost(c)
  \/ \E i \in 1..TaskCalls : RunBegin(i)
  \/ \E i \in 1..TaskCalls : RunComplete(i)

SpecTasks ==
  /\ Init
  /\ [][NextTasks]_vars
  /\ \A i \in 1..TaskCalls : WF_vars(RunBegin(i)) /\ WF_vars(RunComplete(i))

\* ---------------------------------------------------------------- claims
Done(c) == call[c].pc = "done"

\* The error the function called by performance_metrics.wrapper raised.
InnerError(f) ==
  IF f.get_failed # "none" THEN f.get_failed
  ELSE IF f.h_raised # "none" THEN f.h_raised
  ELSE f.set_failed

\* C1: a call of the wrapped h that looks its key up while an earlier call's
\* entry is stored and unexpired, the backend being available, does not
\* invoke h and returns the result the earlier call stored.
C1_SecondCallServedFromCache ==
  \A c \in Ctx :
    (Done(c) /\ call[c].route = "h" /\ call[c].get_failed = "none"
       /\ call[c].saw # NoValue)
      => /\ call[c].invoked = 0
         /\ call[c].outcome = Returned(call[c].saw)

\* C2: a call of the wrapped h that finds the backend unavailable still
\* invokes h once and returns what h returned, raising nothing.
C2_BackendDownStillServes ==
  \A c \in Ctx :
    (Done(c) /\ call[c].route = "h" /\ call[c].h_raised = "none"
       /\ "ConnectionError" \in {call[c].get_failed, call[c].set_failed})
      => /\ call[c].invoked = 1
         /\ call[c].outcome = Returned(call[c].result)

\* C3: every finished invocation of a performance_metrics-wrapped handler,
\* returned or raised, has emitted exactly one timing record, whose end time
\* is not before its start time.
C3_OneTimingRecordPerCall ==
  \A c \in Ctx :
    Done(c) => /\ Len(call[c].records) = 1
               /\ call[c].records[1].endTime >= call[c].records[1].startTime

\* C4: the step in which the handler of a cached route raises on a miss ends
\* the call with that same error and leaves the cache as it was, so the key
\* has no entry from this call; a later lookup of the key misses again.
C4_HandlerErrorNotCached ==
  [][\A c \in Ctx :
       (call[c].pc = "handler" /\ Cached(call[c].route) /\ call'[c].h_raised # "none")
         => /\ cache' = cache
            /\ call'[c].pc = "done"
            /\ call'[c].outcome = Raised(call'[c].h_raised)
            /\ call'[c].stored_until = 0]_vars

C4_Witness ==
  \E c \in Ctx :
    /\ Done(c) /\ call[c].route = "h"
    /\ call[c].outcome = Raised("HandlerError")
    /\ call[c].invoked = 1
    /\ ~cache[call[c].cache_key].present

\* C5: when the lookup succeeded, the handler returned and redis.setex failed
\* because the backend is unavailable, the call returns the computed result.
C5_StoreFailureNotSurfaced ==
  \A c \in Ctx :
    (Done(c) /\ call[c].set_failed = "ConnectionError")
      => call[c].outcome = Returned(call[c].result)

\* C6: a lookup made once the TTL of the stored entry has elapsed gets
\* nothing; the call invokes the handler, and when the handler returns a
\* value Redis stores, the call stores it under the key with a fresh TTL.
C6_ExpiredEntryIsAbsent ==
  \A c \in Ctx :
    call[c].stale
      => /\ call[c].cached_result = NoneV
         /\ call[c].pc \in {"handler", "cache_set", "perf_end", "perf_return", "done"}
         /\ call[c].pc \in {"cache_set", "perf_end", "perf_return", "done"}
              => call[c].invoked = 1
         /\ call[c].pc \in {"perf_end", "perf_return"}
              => /\ call[c].stored_until >= call[c].start_time + Timeout(call[c].route)
                 /\ cache[call[c].cache_key].present
                 /\ cache[call[c].cache_key].expiresAt >= call[c].stored_until

C6_Witness ==
  \E c \in Ctx :
    /\ call[c].stale /\ Done(c)
    /\ call[c].invoked = 1
    /\ call[c].outcome.kind = "return"
    /\ Live(cache, call[c].cache_key, now)

\* C7: once add_post has started the thread, each remaining step of the
\* request, the response included, can be taken whatever the thread has done.
C7_ResponseNeverWaits ==
  \A c \in Ctx :
    (call[c].route = "add_post" /\ call[c].thread # 0)
      => /\ call[c].pc = "perf_end" => ENABLED PerfEnd(c)
         /\ call[c].pc = "perf_return" => ENABLED PerfReturn(c)

C7_Witness ==
  \E c \in Ctx :
    /\ Done(c) /\ call[c].route = "add_post"
    /\ call[c].outcome = Returned(CreatedV("Post added"))
    /\ threads[call[c].thread].state \in {"started", "running"}

\* C8: no step of a background thread changes the frame or the outcome of
\* any request, and an add_post request that started its thread returns
\* 201 'Post added' whether the thread completes or fails.
C8_TaskFailureUnseen ==
  /\ [](\A c \in Ctx :
          (Done(c) /\ call[c].thread # 0)
            => call[c].outcome = Returned(CreatedV("Post added")))
  /\ [][(\E i \in DOMAIN threads : threads'[i].state # threads[i].state)
          => call' = call]_vars

C8_Witness ==
  \E c \in Ctx :
    /\ Done(c) /\ call[c].route = "add_post"
    /\ call[c].outcome = Returned(CreatedV("Post added"))
    /\ threads[call[c].thread].state = "failed"

\* C9: performance_metrics.wrapper calls the function it wraps once, with the
\* arguments it was called with, and its caller gets that function's result
\* or error as it is.
C9_MetricsTransparent ==
  \A c \in Ctx :
    /\ call[c].pc # "idle" => call[c].called = <<call[c].args>>
    /\ Done(c)
         => /\ ~Cached(call[c].route) => call[c].invoked = 1
            /\ call[c].outcome = IF InnerError(call[c]) = "none"
                                   THEN Returned(call[c].result)
                                   ELSE Raised(InnerError(call[c]))

C9_Witness ==
  /\ \E c \in Ctx : Done(c) /\ call[c].route = "h"
                    /\ call[c].outcome = Returned(BytesV("6"))
                    /\ call[c].invoked = 1
                    /\ call[c].args = <<3, 4>>

\* C10: a request to add_user or add_post never builds a cache key nor
\* reaches a lookup or a store, and no step of such a request changes the
\* cache.
C10_MutatingLeavesCache ==
  /\ [](\A c \in Ctx :
          call[c].route \in Mutating
            => /\ call[c].cache_key = <<>>
               /\ call[c].pc \notin {"cache_get", "cache_set"}
               /\ call[c].stored_until = 0)
  /\ [][\A c \in Ctx :
          (call'[c] # call[c] /\ call'[c].route \in Mutating) => cache' = cache]_vars

C10_Witness ==
  \E c \in Ctx :
    /\ Done(c) /\ call[c].route = "add_post" /\ call[c].committed
    /\ \E k \in Keys : Live(cache, k, now)

\* A call that holds a result its handler returned and has not stored it yet.
Storing(k) == \E c \in Ctx : call[c].pc = "cache_set" /\ call[c].cache_key = k

\* C11: whenever a key has a stored, unexpired entry and no call is between
\* its handler's return and its store for that key, the entry holds the
\* serialized result of the handler invocation for that key that returned
\* last; a store never puts an earlier invocation's result over a later one's.
C11_EntryHoldsLatestResult ==
  \A k \in Keys :
    (Live(cache, k, now) /\ ~Storing(k)) => cache[k].value = Encode(latest[k])

\* C12: a finished call of a cached route whose lookup succeeded: if the key
\* had a stored, unexpired entry at the lookup (a HIT) the handler was not
\* invoked; if it had none (a MISS) the handler was invoked exactly once, and
\* a call that returns has stored the result under its key with the route's
\* TTL, between its start and its timing end.
C12_HitSkipsMissStores ==
  \A c \in Ctx :
    (Done(c) /\ Cached(call[c].route) /\ call[c].get_failed = "none")
      => /\ call[c].saw # NoValue => call[c].invoked = 0
         /\ call[c].saw = NoValue
              => /\ call[c].invoked = 1
                 /\ call[c].outcome.kind = "return"
                      => /\ call[c].stored_until >= call[c].start_time + Timeout(call[c].route)
                         /\ call[c].stored_until <= call[c].end_time + Timeout(call[c].route)

\* The response of finished call c was built from fewer Post rows than the
\* row add_post call b committed.
Omits(c, b) ==
  /\ Done(c) /\ call[c].route = "get_posts" /\ call[c].outcome.kind = "return"
  /\ call[b].route = "add_post" /\ call[b].committed
  /\ call[c].outcome.val.n < call[b].row

C14_ColdKeyRaceUnserialized ==
  \A c \in Ctx :
    call[c].route = "h"
      => /\ call[c].pc = "cache_get" => ENABLED CacheGet(c)
         /\ call[c].pc = "handler" => ENABLED HandlerH(c)
         /\ call[c].pc = "cache_set" => ENABLED CacheSet(c)
         /\ call[c].pc = "perf_end" => ENABLED PerfEnd(c)
         /\ call[c].pc = "perf_return" => ENABLED PerfReturn(c)
         /\ (Done(c) /\ call[c].invoked = 1 /\ call[c].outcome.kind = "return")
              => /\ call[c].outcome.val = call[c].result
                 /\ call[c].result \in HValues
                 /\ call[c].stored_until # 0

\* Both calls looked up the same key at the same time and found nothing,
\* although each stored a value a lookup would have served: the calls
\* overlapped, both ran h, both stored, and each returned its own result.
C14_Witness ==
  /\ \A c \in Ctx :
       /\ Done(c) /\ call[c].route = "h" /\ call[c].args = <<3>>
       /\ call[c].cached_result = NoneV /\ ~call[c].stale
       /\ call[c].invoked = 1
       /\ call[c].stored_until # 0
       /\ call[c].outcome = Returned(call[c].result)
  /\ call["r1"].result = BytesV("6")
  /\ call["r2"].result = IntV("6")

\* C15: a get_posts request goes through its steps in one order: the timing
\* start, then the lookup, then the handler and after it the store unless the
\* lookup returned a value, then the timing end with its record, then the
\* return; a request that has ended, by a hit or otherwise, has emitted its
\* one timing record first.
C15_GetPostsStepOrder ==
  \A c \in Ctx :
    call[c].route = "get_posts"
      => /\ call[c].pc = "cache_get"
              => /\ call[c].cache_key = <<>> /\ call[c].invoked = 0
                 /\ call[c].records = <<>>
         /\ call[c].pc = "handler"
              => /\ call[c].cache_key # <<>> /\ ~Truthy(call[c].cached_result)
                 /\ call[c].invoked = 0 /\ call[c].stored_until = 0
                 /\ call[c].records = <<>>
         /\ call[c].pc = "cache_set"
              => /\ call[c].invoked = 1 /\ call[c].stored_until = 0
                 /\ call[c].records = <<>>
         /\ call[c].pc = "perf_end"
              => /\ call[c].records = <<>>
                 /\ IF Truthy(call[c].cached_result)
                      THEN call[c].invoked = 0 /\ call[c].result = call[c].cached_result
                      ELSE call[c].invoked = 1 /\ call[c].stored_until # 0
         /\ call[c].pc = "perf_return"
              => Len(call[c].records) = 1 /\ call[c].outcome = NoOutcome
         /\ Done(c)
              => /\ Len(call[c].records) = 1
                 /\ call[c].records[1].startTime = call[c].start_time
                 /\ call[c].records[1].endTime = call[c].end_time

\* add_post calls that have committed and not yet started their thread
Dispatching == {c \in Ctx : call[c].pc = "thread_start"}

\* C16: add_post starts its thread only after db.session.commit() returned:
\* a call that has a thread has committed, a finished call has a thread
\* exactly when it committed, a call whose commit raised has none; every
\* thread is started by the step after a commit, one thread per step, so the
\* threads started and the commits awaiting their thread add up to the
\* committed posts.
C16_DispatchFollowsCommit ==
  /\ [](/\ \A c \in Ctx :
             call[c].route = "add_post"
               => /\ call[c].thread # 0 => call[c].committed
                  /\ Done(c) => (call[c].committed <=> call[c].thread # 0)
                  /\ call[c].h_raised # "none"
                       => ~call[c].committed /\ call[c].thread = 0
        /\ Len(threads) + Cardinality(Dispatching) = posts)
  /\ [][Len(threads') # Len(threads)
          => /\ Len(threads') = Len(threads) + 1
             /\ \E c \in Ctx :
                  /\ call[c].pc = "thread_start" /\ call[c].committed
                  /\ call'[c].thread = Len(threads')]_vars

\* One add_post committed and started its thread; the next one failed to
\* commit and started none.
C16_Witness ==
  /\ posts = 1 /\ Len(threads) = 1
  /\ \E c \in Ctx :
       /\ Done(c) /\ call[c].route = "add_post"
       /\ call[c].h_raised = "DBError"
       /\ call[c].thread = 0

\* C17: a call that returns a cached value returns a value stored by a call
\* of the same handler with the same argument tuple: not one stored with
\* other arguments, with the same values in another order, or by another
\* wrapped handler.
C17_EntriesIsolatedPerHandlerAndArgs ==
  \A c \in Ctx :
    (Done(c) /\ Cached(call[c].route) /\ call[c].outcome.kind = "return"
       /\ call[c].invoked = 0)
      => call[c].saw_by = <<call[c].route, call[c].args>>

\* C18: a lookup, hit or miss, leaves the cache as it is, and a hit, a call
\* whose lookup returned a value that passes `if cached_result:` and is
\* served, never reaches the handler or the store; the cache
\* changes only in the store of a call that missed, only under that call's
\* key, and the entry then expires the route's TTL after that store. So an
\* entry's expiry time stays what the storing miss set, whatever hits follow.
C18_HitLeavesCacheUnchanged ==
  /\ [](\A c \in Ctx :
          Truthy(call[c].cached_result)
            => /\ call[c].pc \in {"perf_end", "perf_return", "done"}
               /\ call[c].invoked = 0
               /\ call[c].stored_until = 0)
  /\ [][\A c \in Ctx : call[c].pc = "cache_get" /\ call'[c] # call[c]
          => cache' = cache]_vars
  /\ [][cache' # cache
          => \E c \in Ctx :
               /\ call[c].pc = "cache_set" /\ ~Truthy(call[c].cached_result)
               /\ call'[c].pc = "perf_end"
               /\ \A k \in Keys \ {call[c].cache_key} : cache'[k] = cache[k]
               /\ cache'[call[c].cache_key].expiresAt = now + Timeout(call[c].route)]_vars

\* A call hit, later than the store, an entry that still expires when the
\* storing miss said: one TTL after the store at time 0.
C18_Witness ==
  \E c \in Ctx :
    /\ Done(c) /\ call[c].route = "h"
    /\ Truthy(call[c].cached_result)
    /\ call[c].outcome = Returned(call[c].cached_result)
    /\ call[c].start_time > 0
    /\ call[c].saw_until = DefaultTimeout
    /\ cache[call[c].cache_key].expiresAt = DefaultTimeout

Dispatched(i) == i \in DOMAIN threads
Completed(i) == i \in DOMAIN threads /\ threads[i].state = "completed"

\* C19: with every runnable thread scheduled, each thread add_post started
\* eventually completes long_running_task; its steps can be taken whatever
\* the request that started it is doing, returned or not, and no step of a
\* request changes a thread that exists (no join, no await, no cancel).
C19_TasksRunToCompletion ==
  /\ \A i \in 1..TaskCalls : Dispatched(i) ~> Completed(i)
  /\ [](\A i \in DOMAIN threads :
          /\ threads[i].state = "started" => ENABLED TaskBegin(i)
          /\ threads[i].state = "running" => ENABLED TaskComplete(i))
  /\ [][\A c \in Ctx : call'[c] # call[c]
          => \A i \in DOMAIN threads : threads'[i] = threads[i]]_vars

\* A thread has completed while the request that started it has not returned
\* yet, and another one after its request returned.
C19_Witness ==
  /\ \E c \in Ctx :
       /\ call[c].route = "add_post" /\ call[c].pc = "perf_end"
       /\ Completed(call[c].thread)
  /\ \E c \in Ctx :
       /\ call[c].route = "add_post" /\ Done(c)
       /\ Completed(call[c].thread)

====
